---- MODULE Spec2Model ----
(***************************************************************************)
(* Recurring-payment pattern detector and predictor of the wealth-building *)
(* app (backend/prediction_service.py), with the two HTTP handlers that    *)
(* call it (backend/app.py get_summary, backend/routes/predictions.py) and *)
(* the prediction_dismissals table they read and write.                    *)
(*                                                                         *)
(* Dates are calendar days [year, month, day]; amounts are whole currency  *)
(* units (integers), averages are exact fractions [num, den].  Text is a   *)
(* sequence of tokens: a token is a word without blanks, the blank " " or  *)
(* the separator "|".                                                      *)
(***************************************************************************)
EXTENDS Integers, Sequences, FiniteSets, TLC

VARIABLES pending, ledger, today, dismissals, patterns, response

vars == <<pending, ledger, today, dismissals, patterns, response>>

(***************************************************************************)
(* Sequence helpers                                                        *)
(***************************************************************************)
Range(s) == {s[i] : i \in DOMAIN s}

Last(s) == s[Len(s)]

RECURSIVE SumSeq(_)
SumSeq(s) == IF s = <<>> THEN 0 ELSE Head(s) + SumSeq(Tail(s))

Abs(x) == IF x < 0 THEN -x ELSE x

Min(a, b) == IF a < b THEN a ELSE b

RECURSIVE GCD(_, _)
GCD(a, b) == IF b = 0 THEN a ELSE GCD(b, a % b)

\* an exact fraction in lowest terms, standing for a Python float quotient
Frac(n, d) == LET g == GCD(Abs(n), d) IN [num |-> n \div g, den |-> d \div g]

(***************************************************************************)
(* datetime: calendar arithmetic of the Python standard library            *)
(***************************************************************************)
IsLeap(y) == (y % 4 = 0 /\ y % 100 # 0) \/ y % 400 = 0

DaysInMonth(y, m) ==
    IF m = 2 THEN (IF IsLeap(y) THEN 29 ELSE 28)
    ELSE IF m \in {4, 6, 9, 11} THEN 30 ELSE 31

DaysBeforeYear(y) ==
    LET p == y - 1 IN p * 365 + p \div 4 - p \div 100 + p \div 400

DaysBeforeMonth(y, m) ==
    <<0, 31, 59, 90, 120, 151, 181, 212, 243, 273, 304, 334>>[m]
        + (IF m > 2 /\ IsLeap(y) THEN 1 ELSE 0)

\* datetime(y, m, d) raises ValueError unless the day exists
ValidDate(d) ==
    /\ d.month \in 1..12
    /\ d.day >= 1
    /\ d.day <= DaysInMonth(d.year, d.month)

MkDate(y, m, d) == [year |-> y, month |-> m, day |-> d]

ToOrdinal(d) == DaysBeforeYear(d.year) + DaysBeforeMonth(d.year, d.month) + d.day

\* (a - b).days
DaysBetween(a, b) == ToOrdinal(a) - ToOrdinal(b)

\* date.fromordinal(n)
FromOrdinal(n) ==
    LET y == CHOOSE yy \in (n \div 366 + 1)..(n \div 365 + 1) :
                 DaysBeforeYear(yy) < n /\ n <= DaysBeforeYear(yy + 1)
        m == CHOOSE mm \in 1..12 :
                 /\ DaysBeforeYear(y) + DaysBeforeMonth(y, mm) < n
                 /\ n <= DaysBeforeYear(y) + DaysBeforeMonth(y, mm) + DaysInMonth(y, mm)
    IN MkDate(y, m, n - DaysBeforeYear(y) - DaysBeforeMonth(y, m))

\* date + timedelta(days=k)
AddDays(d, k) == FromOrdinal(ToOrdinal(d) + k)

\* (b.year - a.year) * 12 + b.month - a.month
MonthsDiff(a, b) == (b.year - a.year) * 12 + b.month - a.month

\* the first day of the month after (y, m), minus one day
LastDayOfMonth(y, m) == MkDate(y, m, DaysInMonth(y, m))

\* a day that does not exist replaced by the first day of the month
ExpectedAfterMonthsFirstDay(last, k) ==
    LET total == last.month + k
        em == ((total - 1) % 12) + 1
        ey == last.year + (total - 1) \div 12
    IN IF ValidDate(MkDate(ey, em, last.day))
       THEN MkDate(ey, em, last.day)
       ELSE MkDate(ey, em, 1)

\* same day of the month k months later, or that month's last day when the
\* day does not exist there
ExpectedAfterMonths(last, k) ==
    LET total == last.month + k
        em == ((total - 1) % 12) + 1
        ey == last.year + (total - 1) \div 12
    IN IF ValidDate(MkDate(ey, em, last.day))
       THEN MkDate(ey, em, last.day)
       ELSE LastDayOfMonth(ey, em)

(***************************************************************************)
(* Text                                                                    *)
(***************************************************************************)
RECURSIVE LStrip(_)
LStrip(s) == IF s # <<>> /\ Head(s) = " " THEN LStrip(Tail(s)) ELSE s

RECURSIVE RStrip(_)
RStrip(s) == IF s # <<>> /\ Last(s) = " " THEN RStrip(SubSeq(s, 1, Len(s) - 1)) ELSE s

\* str.strip()
Strip(s) == RStrip(LStrip(s))

InternalTransfer == <<"Internal", " ", "Transfer">>

\* Python's None (a NULL column) where a text is expected: a value apart from
\* every text, which has no strip()
None == <<"<None>">>

(***************************************************************************)
(* RecurringPatternDetector: class constants                               *)
(***************************************************************************)
MONTHLY_WINDOW == 3

YEARLY_WINDOW == 7

MIN_OCCURRENCES_MONTHLY == 2

\* a quarterly minimum of two, as for the other cadences
MinOccurrencesQuarterlyAsMonthly == MIN_OCCURRENCES_MONTHLY

MIN_OCCURRENCES_QUARTERLY == 3

MIN_OCCURRENCES_YEARLY == 2

\* MAX_VARIABILITY = 0.30, as the fraction MaxVariabilityNum / MaxVariabilityDen
MaxVariabilityNum == 3

MaxVariabilityDen == 10

NoPattern == [none |-> TRUE]

(***************************************************************************)
(* _group_transactions                                                     *)
(***************************************************************************)
\* datetime.fromisoformat / strptime succeed exactly on an existing day
Parseable(txn) == ValidDate(txn.date)

\* txn.get('recipient', '')
RecipientOf(txn) == IF "recipient" \in DOMAIN txn THEN txn.recipient ELSE <<>>

GroupKey(txn) == <<Strip(RecipientOf(txn)), txn.category, txn.type>>

\* None.strip() raises AttributeError: a transaction whose date was parsed
\* and whose recipient is None aborts the grouping
GroupingRaises(transactions) ==
    \E i \in DOMAIN transactions :
        Parseable(transactions[i]) /\ RecipientOf(transactions[i]) = None

\* the transactions that reach a group: date parsed, recipient not blank
Grouped(transactions) ==
    SelectSeq(transactions, LAMBDA t : Parseable(t) /\ Strip(RecipientOf(t)) # <<>>)

\* the keys of the groups dictionary, in order of first insertion
RECURSIVE KeysInOrder(_, _)
KeysInOrder(txns, seen) ==
    IF txns = <<>> THEN <<>>
    ELSE LET k == GroupKey(Head(txns))
         IN IF k \in seen THEN KeysInOrder(Tail(txns), seen)
            ELSE <<k>> \o KeysInOrder(Tail(txns), seen \cup {k})

GroupTransactions(transactions) ==
    LET kept == Grouped(transactions)
        keys == KeysInOrder(kept, {})
    IN [i \in DOMAIN keys |->
           [key |-> keys[i],
            txns |-> SelectSeq(kept, LAMBDA t : GroupKey(t) = keys[i])]]

\* sorted(group_transactions, key=lambda x: x['date']): stable, ascending
RECURSIVE InsertByDate(_, _)
InsertByDate(s, t) ==
    IF s = <<>> THEN <<t>>
    ELSE IF ToOrdinal(Last(s).date) <= ToOrdinal(t.date) THEN Append(s, t)
    ELSE Append(InsertByDate(SubSeq(s, 1, Len(s) - 1), t), Last(s))

RECURSIVE SortByDate(_)
SortByDate(s) ==
    IF s = <<>> THEN <<>>
    ELSE InsertByDate(SortByDate(SubSeq(s, 1, Len(s) - 1)), Last(s))

(***************************************************************************)
(* _generate_prediction_key                                                *)
(***************************************************************************)
\* f"{recipient}|{category}|{recurrence_type}"
KeyString(recipient, category, recurrence_type) ==
    recipient \o <<"|">> \o category \o <<"|">> \o <<recurrence_type>>

\* sha256(key_string).hexdigest()[:16]: distinct key strings of the model
\* are taken to have distinct digests
GeneratePredictionKey(recipient, category, recurrence_type) ==
    [sha256_16 |-> KeyString(recipient, category, recurrence_type)]

(***************************************************************************)
(* _create_pattern_metadata, _calculate_confidence                         *)
(***************************************************************************)
AbsAmounts(transactions) ==
    [i \in DOMAIN transactions |-> Abs(transactions[i].amount)]

SumSquares(amounts) == SumSeq([i \in DOMAIN amounts |-> amounts[i] * amounts[i]])

\* the population variance over the squared mean
VariabilitySqPopulation(amounts) ==
    LET n == Len(amounts)
        sx == SumSeq(amounts)
    IN IF n > 1 /\ sx > 0
       THEN [num |-> n * SumSquares(amounts) - sx * sx,
             den |-> sx * sx]
       ELSE [num |-> 0, den |-> 1]

\* statistics.stdev(all_amounts) / statistics.mean(all_amounts), squared:
\* the sample variance over the squared mean, as varNum / varDen
VariabilitySq(amounts) ==
    LET n == Len(amounts)
        sx == SumSeq(amounts)
    IN IF n > 1 /\ sx > 0
       THEN [num |-> n * (n * SumSquares(amounts) - sx * sx),
             den |-> (n - 1) * sx * sx]
       ELSE [num |-> 0, den |-> 1]

\* the variability gate left out
TooVariableNever(amounts) == FALSE

\* variability > MAX_VARIABILITY
TooVariable(amounts) ==
    LET v == VariabilitySq(amounts)
    IN v.num * MaxVariabilityDen * MaxVariabilityDen
           > MaxVariabilityNum * MaxVariabilityNum * v.den

\* statistics.median, then int(): the middle value, or the truncated mean of
\* the two middle values
RECURSIVE InsertSorted(_, _)
InsertSorted(s, x) ==
    IF s = <<>> THEN <<x>>
    ELSE IF Last(s) <= x THEN Append(s, x)
    ELSE Append(InsertSorted(SubSeq(s, 1, Len(s) - 1), x), Last(s))

RECURSIVE SortInts(_)
SortInts(s) ==
    IF s = <<>> THEN <<>>
    ELSE InsertSorted(SortInts(SubSeq(s, 1, Len(s) - 1)), Last(s))

\* the median rounded half up
TypicalDayRounded(transactions) ==
    LET days == SortInts([i \in DOMAIN transactions |-> transactions[i].date.day])
        n == Len(days)
    IN IF n % 2 = 1 THEN days[(n + 1) \div 2]
       ELSE (days[n \div 2] + days[n \div 2 + 1] + 1) \div 2

TypicalDay(transactions) ==
    LET days == SortInts([i \in DOMAIN transactions |-> transactions[i].date.day])
        n == Len(days)
    IN IF n % 2 = 1 THEN days[(n + 1) \div 2]
       ELSE (days[n \div 2] + days[n \div 2 + 1]) \div 2

\* round(min(n / 6, 1.0) * 0.6 + max(0, 1.0 - variability) * 0.4, 2), in
\* hundredths: 10 * min(n, 6) + 40 - round(40 * variability)
CalculateConfidence(transactions, variabilitySq) ==
    LET v == Frac(variabilitySq.num, variabilitySq.den)
        j == CHOOSE k \in 0..40 :
                 /\ \/ k = 40
                    \/ 6400 * v.num <= (2 * k + 1) * (2 * k + 1) * v.den
                 /\ \A l \in 0..(k - 1) :
                        6400 * v.num > (2 * l + 1) * (2 * l + 1) * v.den
    IN 10 * Min(Len(transactions), 6) + 40 - j

\* the payments listed newest first
HistoricalPaymentsNewestFirst(transactions) ==
    [i \in DOMAIN transactions |->
        [date |-> transactions[Len(transactions) + 1 - i].date,
         amount |-> transactions[Len(transactions) + 1 - i].amount,
         currency |-> transactions[Len(transactions) + 1 - i].currency]]

HistoricalPayments(transactions) ==
    [i \in DOMAIN transactions |->
        [date |-> transactions[i].date,
         amount |-> transactions[i].amount,
         currency |-> transactions[i].currency]]

\* the mean over all occurrences for every recurrence type
RepresentativeAmountsAll(all_amounts, recurrence_type) == all_amounts

\* the amounts the average is taken over: the last three of a monthly
\* pattern with three or more occurrences, all of them otherwise
RepresentativeAmounts(all_amounts, recurrence_type) ==
    LET n == Len(all_amounts)
    IN IF recurrence_type = "monthly" /\ n >= 3
       THEN SubSeq(all_amounts, n - 2, n)
       ELSE all_amounts

\* the pattern record with a key that also hashes the occurrence count
CreatePatternMetadataKeyedByCount(transactions, group_key, recurrence_type) ==
    LET all_amounts == AbsAmounts(transactions)
        n == Len(transactions)
        amounts == RepresentativeAmounts(all_amounts, recurrence_type)
    IN IF n > 1 /\ TooVariable(all_amounts) THEN NoPattern
       ELSE [recipient |-> group_key[1],
             category |-> group_key[2],
             type |-> group_key[3],
             recurrence_type |-> recurrence_type,
             average_amount |-> Frac(SumSeq(amounts), Len(amounts)),
             typical_day |-> TypicalDay(transactions),
             currency |-> transactions[1].currency,
             confidence |-> CalculateConfidence(transactions,
                               IF n > 1 THEN VariabilitySq(all_amounts)
                               ELSE [num |-> 0, den |-> 1]),
             occurrences |-> n,
             last_date |-> Last(transactions).date,
             historical_dates |-> [i \in DOMAIN transactions |-> transactions[i].date],
             historical_payments |-> HistoricalPayments(transactions),
             prediction_key |-> GeneratePredictionKey(group_key[1] \o <<ToString(n)>>,
                                                      group_key[2], recurrence_type)]

CreatePatternMetadata(transactions, group_key, recurrence_type) ==
    LET all_amounts == AbsAmounts(transactions)
        n == Len(transactions)
        amounts == RepresentativeAmounts(all_amounts, recurrence_type)
    IN IF n > 1 /\ TooVariable(all_amounts) THEN NoPattern
       ELSE [recipient |-> group_key[1],
             category |-> group_key[2],
             type |-> group_key[3],
             recurrence_type |-> recurrence_type,
             average_amount |-> Frac(SumSeq(amounts), Len(amounts)),
             typical_day |-> TypicalDay(transactions),
             currency |-> transactions[1].currency,
             confidence |-> CalculateConfidence(transactions,
                               IF n > 1 THEN VariabilitySq(all_amounts)
                               ELSE [num |-> 0, den |-> 1]),
             occurrences |-> n,
             last_date |-> Last(transactions).date,
             historical_dates |-> [i \in DOMAIN transactions |-> transactions[i].date],
             historical_payments |-> HistoricalPayments(transactions),
             prediction_key |-> GeneratePredictionKey(group_key[1], group_key[2],
                                                      recurrence_type)]

(***************************************************************************)
(* _detect_monthly_pattern                                                 *)
(***************************************************************************)
NoDate == [none |-> TRUE]

MonthlyStart ==
    [matching |-> <<>>, last_date |-> NoDate, count |-> 0, broke |-> FALSE]

\* a payment of the month of the last accepted one starts the run anew
MonthlyOutsideWindowRestarting(st, txn) ==
    LET restart == [matching |-> <<txn>>, last_date |-> txn.date,
                    count |-> 1, broke |-> FALSE]
        months_diff == MonthsDiff(st.last_date, txn.date)
    IN IF months_diff = 1 THEN restart
       ELSE IF months_diff > 1
       THEN (IF st.count >= MIN_OCCURRENCES_MONTHLY
             THEN [st EXCEPT !.broke = TRUE]
             ELSE restart)
       ELSE restart

\* the else-branch of the window test: the next month restarts the run, a
\* later month ends a run that is long enough and restarts a shorter one, and
\* the month of the last accepted payment changes nothing
MonthlyOutsideWindow(st, txn) ==
    LET restart == [matching |-> <<txn>>, last_date |-> txn.date,
                    count |-> 1, broke |-> FALSE]
        months_diff == MonthsDiff(st.last_date, txn.date)
    IN IF months_diff = 1 THEN restart
       ELSE IF months_diff > 1
       THEN (IF st.count >= MIN_OCCURRENCES_MONTHLY
             THEN [st EXCEPT !.broke = TRUE]
             ELSE restart)
       ELSE st

\* one iteration in which a payment a month later but outside the window
\* ends a run that is long enough, as a gap does
MonthlyStepKeepingRun(st, txn) ==
    LET restart == [matching |-> <<txn>>, last_date |-> txn.date,
                    count |-> 1, broke |-> FALSE]
    IN IF st.broke THEN st
       ELSE IF st.last_date = NoDate THEN restart
       ELSE LET expected_date == ExpectedAfterMonths(st.last_date, 1)
                days_diff == Abs(DaysBetween(txn.date, expected_date))
                months_diff == MonthsDiff(st.last_date, txn.date)
            IN IF days_diff <= MONTHLY_WINDOW
               THEN [matching |-> Append(st.matching, txn), last_date |-> txn.date,
                     count |-> st.count + 1, broke |-> FALSE]
               ELSE IF months_diff >= 1
               THEN (IF st.count >= MIN_OCCURRENCES_MONTHLY
                     THEN [st EXCEPT !.broke = TRUE]
                     ELSE restart)
               ELSE st

\* one iteration of the loop over sorted_txns
MonthlyStep(st, txn) ==
    LET restart == [matching |-> <<txn>>, last_date |-> txn.date,
                    count |-> 1, broke |-> FALSE]
    IN IF st.broke THEN st
       ELSE IF st.last_date = NoDate THEN restart
       ELSE LET expected_date == ExpectedAfterMonths(st.last_date, 1)
                days_diff == Abs(DaysBetween(txn.date, expected_date))
            IN IF days_diff <= MONTHLY_WINDOW
               THEN [matching |-> Append(st.matching, txn), last_date |-> txn.date,
                     count |-> st.count + 1, broke |-> FALSE]
               ELSE MonthlyOutsideWindow(st, txn)

RECURSIVE MonthlyScan(_, _)
MonthlyScan(st, txns) ==
    IF txns = <<>> THEN st
    ELSE MonthlyScan(MonthlyStep(st, Head(txns)), Tail(txns))

DetectMonthlyPattern(sorted_txns, group_key) ==
    IF Len(sorted_txns) < MIN_OCCURRENCES_MONTHLY THEN NoPattern
    ELSE LET st == MonthlyScan(MonthlyStart, sorted_txns)
         IN IF st.count >= MIN_OCCURRENCES_MONTHLY
            THEN CreatePatternMetadata(st.matching, group_key, "monthly")
            ELSE NoPattern

(***************************************************************************)
(* _detect_quarterly_pattern, _detect_yearly_pattern                       *)
(***************************************************************************)
PairStart == [matching |-> <<>>, broke |-> FALSE]

\* an iteration that also wants the days of the month within 5 of each other
QuarterlyStepNearDay(st, sorted_txns, i) ==
    LET months_diff == MonthsDiff(sorted_txns[i].date, sorted_txns[i + 1].date)
        days_diff == Abs(sorted_txns[i + 1].date.day - sorted_txns[i].date.day)
    IN IF st.broke THEN st
       ELSE IF months_diff = 3 /\ days_diff <= 5
       THEN [st EXCEPT !.matching =
                Append(IF st.matching = <<>> THEN <<sorted_txns[i]>> ELSE st.matching,
                       sorted_txns[i + 1])]
       ELSE IF st.matching # <<>> /\ Len(st.matching) >= MIN_OCCURRENCES_QUARTERLY
       THEN [st EXCEPT !.broke = TRUE]
       ELSE [st EXCEPT !.matching = <<>>]

\* iteration i of the loop over consecutive pairs
QuarterlyStep(st, sorted_txns, i) ==
    LET months_diff == MonthsDiff(sorted_txns[i].date, sorted_txns[i + 1].date)
    IN IF st.broke THEN st
       ELSE IF months_diff = 3
       THEN [st EXCEPT !.matching =
                Append(IF st.matching = <<>> THEN <<sorted_txns[i]>> ELSE st.matching,
                       sorted_txns[i + 1])]
       ELSE IF st.matching # <<>> /\ Len(st.matching) >= MIN_OCCURRENCES_QUARTERLY
       THEN [st EXCEPT !.broke = TRUE]
       ELSE [st EXCEPT !.matching = <<>>]

RECURSIVE QuarterlyScan(_, _, _)
QuarterlyScan(st, sorted_txns, i) ==
    IF i > Len(sorted_txns) - 1 THEN st
    ELSE QuarterlyScan(QuarterlyStep(st, sorted_txns, i), sorted_txns, i + 1)

DetectQuarterlyPattern(sorted_txns, group_key) ==
    IF Len(sorted_txns) < MIN_OCCURRENCES_QUARTERLY THEN NoPattern
    ELSE LET st == QuarterlyScan(PairStart, sorted_txns, 1)
         IN IF Len(st.matching) >= MIN_OCCURRENCES_QUARTERLY
            THEN CreatePatternMetadata(st.matching, group_key, "quarterly")
            ELSE NoPattern

YearlyStep(st, sorted_txns, i) ==
    LET current_date == sorted_txns[i].date
        next_date == sorted_txns[i + 1].date
        months_diff == MonthsDiff(current_date, next_date)
        days_diff == Abs(next_date.day - current_date.day)
    IN IF st.broke THEN st
       ELSE IF 11 <= months_diff /\ months_diff <= 13
       THEN (IF days_diff <= YEARLY_WINDOW
             THEN [st EXCEPT !.matching =
                      Append(IF st.matching = <<>> THEN <<sorted_txns[i]>>
                             ELSE st.matching,
                             sorted_txns[i + 1])]
             ELSE st)
       ELSE IF st.matching # <<>> /\ Len(st.matching) >= MIN_OCCURRENCES_YEARLY
       THEN [st EXCEPT !.broke = TRUE]
       ELSE [st EXCEPT !.matching = <<>>]

RECURSIVE YearlyScan(_, _, _)
YearlyScan(st, sorted_txns, i) ==
    IF i > Len(sorted_txns) - 1 THEN st
    ELSE YearlyScan(YearlyStep(st, sorted_txns, i), sorted_txns, i + 1)

DetectYearlyPattern(sorted_txns, group_key) ==
    IF Len(sorted_txns) < MIN_OCCURRENCES_YEARLY THEN NoPattern
    ELSE LET st == YearlyScan(PairStart, sorted_txns, 1)
         IN IF Len(st.matching) >= MIN_OCCURRENCES_YEARLY
            THEN CreatePatternMetadata(st.matching, group_key, "yearly")
            ELSE NoPattern

(***************************************************************************)
(* detect_recurring_patterns                                               *)
(***************************************************************************)
\* the matchers tried in the reverse order
DetectGroupYearlyFirst(group) ==
    IF Len(group.txns) < MIN_OCCURRENCES_MONTHLY THEN NoPattern
    ELSE LET sorted_txns == SortByDate(group.txns)
             yearly_pattern == DetectYearlyPattern(sorted_txns, group.key)
             quarterly_pattern == DetectQuarterlyPattern(sorted_txns, group.key)
         IN IF yearly_pattern # NoPattern THEN yearly_pattern
            ELSE IF quarterly_pattern # NoPattern THEN quarterly_pattern
            ELSE DetectMonthlyPattern(sorted_txns, group.key)

\* the pattern of one group: the first matcher that yields one wins
DetectGroup(group) ==
    IF Len(group.txns) < MIN_OCCURRENCES_MONTHLY THEN NoPattern
    ELSE LET sorted_txns == SortByDate(group.txns)
             monthly_pattern == DetectMonthlyPattern(sorted_txns, group.key)
             quarterly_pattern == DetectQuarterlyPattern(sorted_txns, group.key)
         IN IF monthly_pattern # NoPattern THEN monthly_pattern
            ELSE IF quarterly_pattern # NoPattern THEN quarterly_pattern
            ELSE DetectYearlyPattern(sorted_txns, group.key)

\* the call raises instead of returning: the exception of the grouping is
\* not caught
DetectRaises(transactions) ==
    GroupingRaises(SelectSeq(transactions, LAMBDA t : t.category # InternalTransfer))

\* the list the call returns when it does not raise
DetectRecurringPatterns(transactions) ==
    LET filtered_transactions ==
            SelectSeq(transactions, LAMBDA t : t.category # InternalTransfer)
        groups == GroupTransactions(filtered_transactions)
        found == [i \in DOMAIN groups |-> DetectGroup(groups[i])]
    IN SelectSeq(found, LAMBDA p : p # NoPattern)

(***************************************************************************)
(* generate_predictions_for_month                                          *)
(***************************************************************************)
\* December refused too, as when the following month is built from month + 1
WellFormedMonthBeforeDecember(target) == target.month + 1 \in 1..12

\* a target month 'YYYY-MM' is the pair [year, month]; datetime(year, month, 1)
\* raises for a month outside 1..12
WellFormedMonth(target) == target.month \in 1..12

\* a month of grace instead of a week
OverdueDaysMonth == MONTHLY_WINDOW * 10

OVERDUE_DAYS == 7

\* a 29 February moved to 1 March of the following year
ExpectedDateLeapDayToMarch(pattern) ==
    LET last_date == pattern.last_date
    IN IF pattern.recurrence_type = "monthly" THEN ExpectedAfterMonths(last_date, 1)
       ELSE IF pattern.recurrence_type = "quarterly" THEN ExpectedAfterMonths(last_date, 3)
       ELSE IF ValidDate(MkDate(last_date.year + 1, last_date.month, last_date.day))
       THEN MkDate(last_date.year + 1, last_date.month, last_date.day)
       ELSE MkDate(last_date.year + 1, last_date.month + 1, 1)

\* the date the next payment is expected on, by recurrence type
ExpectedDate(pattern) ==
    LET last_date == pattern.last_date
    IN IF pattern.recurrence_type = "monthly" THEN ExpectedAfterMonths(last_date, 1)
       ELSE IF pattern.recurrence_type = "quarterly" THEN ExpectedAfterMonths(last_date, 3)
       ELSE IF ValidDate(MkDate(last_date.year + 1, last_date.month, last_date.day))
       THEN MkDate(last_date.year + 1, last_date.month, last_date.day)
       ELSE MkDate(last_date.year + 1, last_date.month, 28)

\* a quarterly pattern due for every target month
ShouldPredictQuarterlyAnyMonth(pattern, target, current_date) ==
    LET last_date == pattern.last_date
        days_overdue == DaysBetween(current_date, ExpectedDate(pattern))
        years_since == target.year - last_date.year
    IN IF pattern.recurrence_type = "monthly" THEN ~(days_overdue > OVERDUE_DAYS)
       ELSE IF pattern.recurrence_type = "quarterly"
       THEN ~(days_overdue > OVERDUE_DAYS)
       ELSE IF pattern.recurrence_type = "yearly"
       THEN /\ ~(days_overdue > OVERDUE_DAYS)
            /\ target.month = last_date.month
            /\ years_since >= 1
       ELSE FALSE

\* should_predict after the branch of the pattern's recurrence type; a pattern
\* more than OVERDUE_DAYS past its expected date is skipped
ShouldPredict(pattern, target, current_date) ==
    LET last_date == pattern.last_date
        days_overdue == DaysBetween(current_date, ExpectedDate(pattern))
        months_since == (target.year - last_date.year) * 12 + target.month - last_date.month
        years_since == target.year - last_date.year
    IN IF pattern.recurrence_type = "monthly" THEN ~(days_overdue > OVERDUE_DAYS)
       ELSE IF pattern.recurrence_type = "quarterly"
       THEN ~(days_overdue > OVERDUE_DAYS) /\ 2 <= months_since /\ months_since <= 4
       ELSE IF pattern.recurrence_type = "yearly"
       THEN /\ ~(days_overdue > OVERDUE_DAYS)
            /\ target.month = last_date.month
            /\ years_since >= 1
       ELSE FALSE

\* a day that does not exist rolled over into the following month
PredictedDateRolledOver(pattern, target) ==
    IF ValidDate(MkDate(target.year, target.month, pattern.typical_day))
    THEN MkDate(target.year, target.month, pattern.typical_day)
    ELSE AddDays(LastDayOfMonth(target.year, target.month), 1)

PredictedDate(pattern, target) ==
    IF ValidDate(MkDate(target.year, target.month, pattern.typical_day))
    THEN MkDate(target.year, target.month, pattern.typical_day)
    ELSE LastDayOfMonth(target.year, target.month)

\* the prediction record with the unsigned average for every type
MakePredictionUnsigned(pattern, target) ==
    [date |-> PredictedDate(pattern, target),
     amount |-> [pattern.average_amount EXCEPT !.num = Abs(@)],
     currency |-> pattern.currency,
     type |-> pattern.type,
     recipient |-> pattern.recipient,
     category |-> pattern.category,
     account |-> "Predicted",
     is_predicted |-> TRUE,
     prediction_key |-> pattern.prediction_key,
     confidence |-> pattern.confidence,
     recurrence_type |-> pattern.recurrence_type,
     based_on |-> pattern.historical_payments]

MakePrediction(pattern, target) ==
    [date |-> PredictedDate(pattern, target),
     amount |-> IF pattern.type = "expense"
                THEN [pattern.average_amount EXCEPT !.num = -Abs(@)]
                ELSE [pattern.average_amount EXCEPT !.num = Abs(@)],
     currency |-> pattern.currency,
     type |-> pattern.type,
     recipient |-> pattern.recipient,
     category |-> pattern.category,
     account |-> "Predicted",
     is_predicted |-> TRUE,
     prediction_key |-> pattern.prediction_key,
     confidence |-> pattern.confidence,
     recurrence_type |-> pattern.recurrence_type,
     based_on |-> pattern.historical_payments]

\* the generator without the dismissal check
GeneratePredictionsIgnoringDismissals(pats, target, dismissed_predictions, current_date) ==
    IF ~WellFormedMonth(target) THEN <<>>
    ELSE LET due == SelectSeq(pats, LAMBDA p : ShouldPredict(p, target, current_date))
         IN [i \in DOMAIN due |-> MakePrediction(due[i], target)]

GeneratePredictionsForMonth(pats, target, dismissed_predictions, current_date) ==
    IF ~WellFormedMonth(target) THEN <<>>
    ELSE LET due == SelectSeq(pats, LAMBDA p :
                        /\ p.prediction_key \notin dismissed_predictions
                        /\ ShouldPredict(p, target, current_date))
         IN [i \in DOMAIN due |-> MakePrediction(due[i], target)]

(***************************************************************************)
(* prediction_dismissals, get_dismissed_predictions                        *)
(***************************************************************************)
Null == [null |-> TRUE]

\* WHERE tenant_id = ... AND (expires_at IS NULL OR expires_at >= target_date)
GetDismissedPredictions(rows, tenant_id, target) ==
    IF ~WellFormedMonth(target) THEN {}
    ELSE LET target_date == MkDate(target.year, target.month, 1)
         IN {r.prediction_key : r \in
                {q \in rows :
                    /\ q.tenant_id = tenant_id
                    /\ \/ q.expires_at = Null
                       \/ ToOrdinal(q.expires_at) >= ToOrdinal(target_date)}}

\* every dismissal lasting 60 days
ExpiryDaysAlways60(recurrence_type) == 60

\* the number of days a dismissal lasts, by the request's recurrence_type
ExpiryDays(recurrence_type) ==
    IF recurrence_type = "monthly" THEN 60
    ELSE IF recurrence_type = "quarterly" THEN 120
    ELSE IF recurrence_type = "yearly" THEN 420
    ELSE 60

\* INSERT ... ON CONFLICT (prediction_key) DO UPDATE SET expires_at = ...
UpsertDismissal(rows, tenant_id, prediction_key, expires_at) ==
    IF \E r \in rows : r.prediction_key = prediction_key
    THEN {IF r.prediction_key = prediction_key
          THEN [r EXCEPT !.expires_at = expires_at] ELSE r : r \in rows}
    ELSE rows \cup {[tenant_id |-> tenant_id, prediction_key |-> prediction_key,
                     expires_at |-> expires_at]}

(***************************************************************************)
(* get_transactions, and the transaction records the handlers build        *)
(***************************************************************************)
\* ORDER BY transaction_date DESC, created_at DESC: rows holds the table in
\* order of creation
RECURSIVE InsertNewest(_, _)
InsertNewest(s, row) ==
    IF s = <<>> THEN <<row>>
    ELSE IF ToOrdinal(Head(s).transaction_date) <= ToOrdinal(row.transaction_date)
    THEN <<row>> \o s
    ELSE <<Head(s)>> \o InsertNewest(Tail(s), row)

RECURSIVE GetTransactions(_)
GetTransactions(rows) ==
    IF rows = <<>> THEN <<>>
    ELSE InsertNewest(GetTransactions(SubSeq(rows, 1, Len(rows) - 1)), Last(rows))

\* amount: float(amount) for income, -float(amount) otherwise
FormatTransaction(row) ==
    [date |-> row.transaction_date,
     amount |-> IF row.transaction_type = "income" THEN row.amount ELSE -row.amount,
     currency |-> row.currency,
     type |-> row.transaction_type,
     recipient |-> row.recipient,
     category |-> row.category]

FormattedTransactions(rows) ==
    LET db_transactions == GetTransactions(rows)
    IN [i \in DOMAIN db_transactions |-> FormatTransaction(db_transactions[i])]

(***************************************************************************)
(* get_summary: predictions of the current month, without those a real     *)
(* transaction of the month already covers                                 *)
(***************************************************************************)
MonthOf(d) == [year |-> d.year, month |-> d.month]

\* monthly_data[month][income_transactions | expense_transactions][category]
ExistingTransactions(transactions, month, type, category) ==
    SelectSeq(transactions, LAMBDA t :
        /\ Parseable(t)
        /\ MonthOf(t.date) = month
        /\ t.category # InternalTransfer
        /\ (t.type = "income") = (type = "income")
        /\ t.category = category)

\* the duplicate test with a tolerance of 20%
IsDuplicateWithin20(prediction, transactions, month) ==
    LET pred == [prediction.amount EXCEPT !.num = Abs(@)]
    IN \E i \in DOMAIN transactions :
           /\ Parseable(transactions[i])
           /\ MonthOf(transactions[i].date) = month
           /\ transactions[i].category = prediction.category
           /\ (transactions[i].type = "income") = (prediction.type = "income")
           /\ transactions[i].recipient = prediction.recipient
           /\ 5 * Abs(Abs(transactions[i].amount) * pred.den - pred.num) < pred.num

\* abs(txn_amount - pred_amount) / pred_amount < 0.10, or pred_amount = 0
IsDuplicate(prediction, transactions, month) ==
    LET pred == [prediction.amount EXCEPT !.num = Abs(@)]
        existing == ExistingTransactions(transactions, month, prediction.type,
                                         prediction.category)
    IN \E i \in DOMAIN existing :
           /\ existing[i].recipient = prediction.recipient
           /\ IF pred.num > 0
              THEN 10 * Abs(Abs(existing[i].amount) * pred.den - pred.num) < pred.num
              ELSE TRUE

FilterPredictions(predictions, transactions, month) ==
    SelectSeq(predictions, LAMBDA p : ~IsDuplicate(p, transactions, month))

(***************************************************************************)
(* Bounds and the inputs drawn from them                                   *)
(***************************************************************************)
\* the number of statement rows of one uploaded statement
MaxTxns == 4

Tenants == {"T1", "T2"}

\* the tenant the ledger belongs to; the other tenant has no transactions
Owner == "T1"

Gym == <<"Gym">>

Fitness == <<"Fitness">>

Row(date, amount) ==
    [transaction_date |-> date, amount |-> amount, currency |-> "EUR",
     transaction_type |-> "expense", recipient |-> Gym, category |-> Fitness]

\* a statement row of another payee, or with no usable payee
RowOf(date, amount, recipient) == [Row(date, amount) EXCEPT !.recipient = recipient]

Amounts == {0, 90, 110, 150}

\* the recipient column of a row: two payees, one of them also padded with
\* blanks, the empty text, a blank text and NULL
Recipients == {Gym, <<" ", "Gym", " ">>, <<"Rent">>, <<>>, <<" ">>, None}

DetectDates ==
    <<MkDate(2023, 1, 5), MkDate(2023, 10, 5), MkDate(2023, 12, 5),
      MkDate(2024, 1, 5), MkDate(2024, 1, 31),
      MkDate(2024, 2, 5), MkDate(2024, 2, 29), MkDate(2024, 3, 6), MkDate(2024, 3, 31),
      MkDate(2024, 4, 5), MkDate(2024, 5, 5)>>

ChainDates ==
    <<MkDate(2024, 1, 5), MkDate(2024, 2, 5), MkDate(2024, 3, 6),
      MkDate(2024, 4, 5), MkDate(2024, 5, 5), MkDate(2024, 6, 5)>>

PredictDates ==
    <<MkDate(2023, 12, 5), MkDate(2024, 1, 5), MkDate(2024, 2, 5),
      MkDate(2024, 4, 5), MkDate(2024, 5, 5), MkDate(2024, 6, 5)>>

\* the strictly increasing index sequences of length n into 1..m
Increasing(n, m) ==
    {f \in [1..n -> 1..m] : \A i \in 1..(n - 1) : f[i] < f[i + 1]}

\* statements of one payee: every choice of MaxTxns dates, equal amounts
DateFeeds(dates, amount) ==
    {[i \in 1..MaxTxns |-> Row(dates[f[i]], amount)] :
        f \in Increasing(MaxTxns, Len(dates))}

\* statements of one payee paid monthly: every choice of amounts
AmountFeeds(dates, amounts) ==
    {[i \in 1..MaxTxns |-> Row(dates[i], a[i])] : a \in [1..MaxTxns -> amounts]}

\* payments a year apart, the later ones on another day of the month
YearlyDates ==
    <<MkDate(2022, 1, 5), MkDate(2023, 1, 5), MkDate(2024, 1, 5),
      MkDate(2024, 1, 20), MkDate(2025, 1, 20), MkDate(2026, 1, 20)>>

\* monthly dates, one of them a date text that names no day (30 February)
UnparseableDates ==
    <<MkDate(2024, 1, 5), MkDate(2024, 2, 5), MkDate(2024, 2, 30),
      MkDate(2024, 3, 6), MkDate(2024, 4, 5), MkDate(2024, 5, 5)>>

\* statements paid monthly: every choice of recipient columns
RecipientFeeds(dates, recipients) ==
    {[i \in 1..MaxTxns |-> RowOf(dates[i], 110, r[i])] :
        r \in [1..MaxTxns -> recipients]}

\* a payee paid every three months on changing days: a run of two, a gap of
\* five months, a run of three, a gap of two months and a last pair
QuarterlyFeed ==
    <<Row(MkDate(2023, 1, 5), 110), Row(MkDate(2023, 4, 20), 110),
      Row(MkDate(2023, 9, 5), 110), Row(MkDate(2023, 12, 20), 110),
      Row(MkDate(2024, 3, 5), 110), Row(MkDate(2024, 5, 20), 110),
      Row(MkDate(2024, 8, 20), 110)>>

\* payments three months apart, and a year apart
QuarterChainDates ==
    <<MkDate(2023, 4, 5), MkDate(2023, 7, 5), MkDate(2023, 10, 5),
      MkDate(2024, 1, 5), MkDate(2024, 4, 5), MkDate(2024, 7, 5)>>

YearChainDates ==
    <<MkDate(2020, 3, 5), MkDate(2021, 3, 5), MkDate(2022, 3, 5),
      MkDate(2023, 3, 5), MkDate(2024, 3, 5), MkDate(2025, 3, 5)>>

\* statements of one payee who is paid and who pays back: every choice of
\* the rows' transaction type
TypeFeeds(dates, types) ==
    {[i \in 1..MaxTxns |-> [Row(dates[i], 110) EXCEPT !.transaction_type = ty[i]]] :
        ty \in [1..MaxTxns -> types]}

\* statements of one payee billed in two currencies
CurrencyFeeds(dates, currencies) ==
    {[i \in 1..MaxTxns |-> [Row(dates[i], 110) EXCEPT !.currency = c[i]]] :
        c \in [1..MaxTxns -> currencies]}

DetectFeeds ==
    DateFeeds(DetectDates, 110) \cup AmountFeeds(ChainDates, Amounts)
        \cup DateFeeds(YearlyDates, 110) \cup DateFeeds(UnparseableDates, 110)
        \cup RecipientFeeds(ChainDates, Recipients)
        \cup AmountFeeds(QuarterChainDates, Amounts)
        \cup AmountFeeds(YearChainDates, Amounts)
        \cup {QuarterlyFeed}
        \cup TypeFeeds(ChainDates, {"expense", "income"})
        \cup CurrencyFeeds(ChainDates, {"EUR", "CHF"})

\* the amounts of a statement: all equal, or alternating
AmountPlans == {<<110, 110, 110, 110, 110, 110>>, <<90, 110, 90, 110, 90, 110>>}

\* the statement of the worked example: 50, 50 and 52
ExampleFeed ==
    <<Row(MkDate(2024, 1, 5), 50), Row(MkDate(2024, 2, 5), 50),
      Row(MkDate(2024, 3, 6), 52)>>

\* a payee paid on the last day of each month
MonthEndFeed ==
    <<Row(MkDate(2024, 1, 31), 110), Row(MkDate(2024, 2, 29), 110),
      Row(MkDate(2024, 3, 31), 110)>>

\* a statement whose last row has no recipient
NullRecipientFeed ==
    <<Row(MkDate(2024, 1, 5), 110), Row(MkDate(2024, 2, 5), 110),
      RowOf(MkDate(2024, 3, 6), 110, None)>>

\* payees paid every three months, on the 5th and at the end of the month
QuarterlyDueFeed ==
    <<Row(MkDate(2023, 6, 5), 110), Row(MkDate(2023, 9, 5), 110),
      Row(MkDate(2023, 12, 5), 110)>>

QuarterEndFeed ==
    <<Row(MkDate(2023, 5, 31), 110), Row(MkDate(2023, 8, 31), 110),
      Row(MkDate(2023, 11, 30), 110)>>

\* payees paid once a year, on 5 March and at the end of February
YearlyDueFeed ==
    <<Row(MkDate(2022, 3, 5), 110), Row(MkDate(2023, 3, 5), 110)>>

LeapDayFeed ==
    <<Row(MkDate(2023, 2, 28), 110), Row(MkDate(2024, 2, 29), 110)>>

PredictFeeds ==
    {[i \in 1..MaxTxns |-> Row(PredictDates[f[i]], a[i])] :
        f \in Increasing(MaxTxns, 5), a \in AmountPlans}
        \cup {ExampleFeed, MonthEndFeed, NullRecipientFeed}
        \cup {QuarterlyDueFeed, QuarterEndFeed, YearlyDueFeed, LeapDayFeed}

ClockDates ==
    {MkDate(2024, 2, 10), MkDate(2024, 3, 7), MkDate(2024, 3, 8),
     MkDate(2024, 3, 12), MkDate(2024, 3, 13),
     MkDate(2024, 3, 20), MkDate(2024, 4, 1), MkDate(2024, 4, 20),
     MkDate(2024, 5, 10), MkDate(2025, 3, 7), MkDate(2025, 3, 8)}

TargetMonths ==
    {[year |-> 2024, month |-> 1],
     [year |-> 2024, month |-> 2], [year |-> 2024, month |-> 3],
     [year |-> 2024, month |-> 4], [year |-> 2024, month |-> 5],
     [year |-> 2024, month |-> 12], [year |-> 2024, month |-> 13],
     [year |-> 2025, month |-> 2]}

\* the recurrence_type values a dismiss request may carry
RecurrenceInputs == {"monthly", "quarterly", "yearly", "weekly"}

\* the JSON bodies of a dismiss request for a key: recurrence_type is optional
DismissBodies(prediction_key) ==
    {[prediction_key |-> prediction_key]}
        \cup {[prediction_key |-> prediction_key, recurrence_type |-> r] :
                 r \in RecurrenceInputs}

(***************************************************************************)
(* State                                                                   *)
(***************************************************************************)
NoResponse == [kind |-> "none"]

InitCommon ==
    /\ ledger = <<>>
    /\ today = MkDate(2024, 2, 10)
    /\ dismissals = {}
    /\ patterns = <<>>
    /\ response = NoResponse

Init ==
    /\ pending \in PredictFeeds
    /\ InitCommon

InitDetect ==
    /\ pending \in DetectFeeds
    /\ InitCommon

\* process_document: one statement row is stored
ImportTransaction ==
    /\ response = NoResponse
    /\ pending # <<>>
    /\ ledger' = Append(ledger, Head(pending))
    /\ pending' = Tail(pending)
    /\ UNCHANGED <<today, dismissals, patterns, response>>

\* datetime.now() moves on
Tick ==
    /\ response = NoResponse
    /\ \E d \in ClockDates :
          /\ ToOrdinal(d) > ToOrdinal(today)
          /\ today' = d
    /\ UNCHANGED <<pending, ledger, dismissals, patterns, response>>

\* the transaction list a handler builds for a tenant
TransactionsOf(tenant_id) ==
    IF tenant_id = Owner THEN FormattedTransactions(ledger) ELSE <<>>

\* detect_recurring_patterns called on the owner's transactions: the caller
\* gets the pattern list, or the exception
Detect ==
    /\ IF DetectRaises(TransactionsOf(Owner))
       THEN /\ response' = [kind |-> "raised", error |-> "AttributeError"]
            /\ UNCHANGED patterns
       ELSE /\ patterns' = DetectRecurringPatterns(TransactionsOf(Owner))
            /\ UNCHANGED response
    /\ UNCHANGED <<pending, ledger, today, dismissals>>

\* POST /api/predictions/dismiss
DismissPrediction(tenant_id, data) ==
    LET recurrence_type == IF "recurrence_type" \in DOMAIN data
                           THEN data.recurrence_type ELSE "monthly"
        expires_at == AddDays(today, ExpiryDays(recurrence_type))
    IN /\ dismissals' = UpsertDismissal(dismissals, tenant_id, data.prediction_key,
                                        expires_at)
       /\ response' = [kind |-> "dismiss", tenant_id |-> tenant_id, data |-> data]
       /\ UNCHANGED <<pending, ledger, today, patterns>>

\* the keys a client can send: those of the predictions it is shown, and
\* those already dismissed
KnownKeys(tenant_id) ==
    IF response = NoResponse THEN {r.prediction_key : r \in dismissals}
    ELSE IF response.kind \in {"summary", "month"} /\ response.tenant_id = tenant_id
    THEN {p.prediction_key : p \in Range(response.predictions)}
    ELSE {}

Dismiss ==
    \E tenant_id \in Tenants :
        \E prediction_key \in KnownKeys(tenant_id) :
            \E data \in DismissBodies(prediction_key) :
                DismissPrediction(tenant_id, data)

\* the patterns a handler of a tenant works with: none when the detection
\* raised
PatternsOf(tenant_id) ==
    IF DetectRaises(TransactionsOf(tenant_id)) THEN <<>>
    ELSE DetectRecurringPatterns(TransactionsOf(tenant_id))

\* the predictions generated with the clock read once, at start-up
GeneratedAtStartup(tenant_id, target) ==
    GeneratePredictionsForMonth(
        PatternsOf(tenant_id), target,
        GetDismissedPredictions(dismissals, tenant_id, target), MkDate(2024, 2, 10))

\* the predictions a handler of a tenant works with: none when the detection
\* raised and the handler caught the exception
Generated(tenant_id, target) ==
    GeneratePredictionsForMonth(
        PatternsOf(tenant_id), target,
        GetDismissedPredictions(dismissals, tenant_id, target), today)

\* GET /api/summary: the predictions merged into the current month; an
\* exception of the prediction block is logged and the summary is returned
\* without predictions
GetSummary ==
    /\ response = NoResponse
    /\ \E tenant_id \in Tenants :
          response' = [kind |-> "summary", tenant_id |-> tenant_id,
                       target |-> MonthOf(today),
                       predictions |->
                           FilterPredictions(Generated(tenant_id, MonthOf(today)),
                                             TransactionsOf(tenant_id), MonthOf(today))]
    /\ UNCHANGED <<pending, ledger, today, dismissals, patterns>>

\* GET /api/predictions/month/<month>
GetPredictionsForMonth ==
    /\ response = NoResponse
    /\ \E tenant_id \in Tenants, month \in TargetMonths :
          response' = IF DetectRaises(TransactionsOf(tenant_id))
                      THEN [kind |-> "error", tenant_id |-> tenant_id,
                            target |-> month, status |-> 500]
                      ELSE [kind |-> "month", tenant_id |-> tenant_id,
                            target |-> month,
                            predictions |-> Generated(tenant_id, month)]
    /\ UNCHANGED <<pending, ledger, today, dismissals, patterns>>

\* the caller drops the response, or the exception, it holds
Discard ==
    /\ response # NoResponse
    /\ response' = NoResponse
    /\ UNCHANGED <<pending, ledger, today, dismissals, patterns>>

Next ==
    \/ ImportTransaction
    \/ Tick
    \/ Dismiss
    \/ GetSummary
    \/ GetPredictionsForMonth
    \/ Discard

Spec == Init /\ [][Next]_vars

NextDetect ==
    \/ ImportTransaction
    \/ Detect
    \/ Discard

SpecDetect == InitDetect /\ [][NextDetect]_vars

(***************************************************************************)
(* Properties                                                              *)
(***************************************************************************)
\* the patterns a detection run on the owner's ledger returns now (none when
\* it raises)
DetectedNow == PatternsOf(Owner)

\* the owner's transactions, oldest first
OldestFirst == SortByDate(TransactionsOf(Owner))

\* b lies within three days of the day one calendar month after a
MonthApart(a, b) == Abs(DaysBetween(b, ExpectedAfterMonths(a, 1))) <= 3

\* a response that carries predictions is held by the client
Answered == response.kind \in {"summary", "month"}

\* the prediction q was generated from the pattern p
PredictionOf(q, p) ==
    /\ q.recipient = p.recipient
    /\ q.category = p.category
    /\ q.type = p.type
    /\ q.recurrence_type = p.recurrence_type

\* C1: every pattern a detection run returns has at least 2 occurrences when
\* monthly, at least 3 when quarterly and at least 2 when yearly.
C1_MinimumOccurrences ==
    \A i \in DOMAIN patterns :
        /\ Len(patterns[i].historical_payments) = patterns[i].occurrences
        /\ patterns[i].recurrence_type = "monthly" => patterns[i].occurrences >= 2
        /\ patterns[i].recurrence_type = "quarterly" => patterns[i].occurrences >= 3
        /\ patterns[i].recurrence_type = "yearly" => patterns[i].occurrences >= 2

\* a quarterly pattern with exactly three occurrences was returned
C1_Witness ==
    \E i \in DOMAIN patterns :
        patterns[i].recurrence_type = "quarterly" /\ patterns[i].occurrences = 3

\* C2: for every returned pattern the standard deviation of the absolute
\* amounts of its occurrences is at most 0.30 of their mean (for the sample
\* deviation the code computes, and so for the population deviation too).
C2_VariabilityAtMost30Percent ==
    \A i \in DOMAIN patterns :
        LET amounts == [k \in DOMAIN patterns[i].historical_payments |->
                           Abs(patterns[i].historical_payments[k].amount)]
            n == Len(amounts)
            sum == SumSeq(amounts)
            squares == SumSeq([k \in DOMAIN amounts |-> amounts[k] * amounts[k]])
        IN (n > 1 /\ sum > 0) =>
               /\ 100 * n * (n * squares - sum * sum) <= 9 * (n - 1) * sum * sum
               /\ 100 * (n * squares - sum * sum) <= 9 * sum * sum

\* a pattern whose occurrences differ in amount was returned
C2_Witness ==
    \E i \in DOMAIN patterns :
        \E k \in DOMAIN patterns[i].historical_payments :
            /\ patterns[i].historical_payments[k].amount
                   # patterns[i].historical_payments[1].amount
            /\ patterns[i].historical_payments[1].amount # 0

\* C3: a monthly pattern that is not dismissed and whose expected next date
\* (last date plus one calendar month, clamped to the month's end) lies more
\* than 7 days before today yields no prediction, whatever the target month.
C3_LapsedMonthlyNotPredicted ==
    Answered =>
        \A p \in Range(PatternsOf(response.tenant_id)) :
            (/\ p.recurrence_type = "monthly"
             /\ DaysBetween(today, ExpectedAfterMonths(p.last_date, 1)) > 7)
            => \A q \in Range(response.predictions) : ~PredictionOf(q, p)

\* the month endpoint answered for 2024-03 on 2024-03-20 with a monthly
\* pattern last paid on 2024-01-05, not dismissed
C3_Witness ==
    /\ response.kind = "month"
    /\ response.tenant_id = Owner
    /\ response.target = [year |-> 2024, month |-> 3]
    /\ today = MkDate(2024, 3, 20)
    /\ \E p \in Range(DetectedNow) :
          /\ p.recurrence_type = "monthly"
          /\ p.last_date = MkDate(2024, 1, 5)
          /\ p.prediction_key \notin
                 GetDismissedPredictions(dismissals, Owner, response.target)
    /\ response.predictions = <<>>

\* the ledger ends with two payments a month apart that follow a gap of more
\* than one calendar month, and their amounts pass the variability gate
ResumedAfterGap ==
    LET s == OldestFirst
        n == Len(s)
    IN /\ n >= 3
       /\ MonthsDiff(s[n - 2].date, s[n - 1].date) > 1
       /\ MonthApart(s[n - 1].date, s[n].date)
       /\ ~TooVariable(AbsAmounts(SubSeq(s, n - 1, n)))

\* C4: once a payee resumes after a gap of more than one calendar month with
\* payments that form a monthly run, a new detection run returns a pattern
\* whose last date is the newest payment, and the pattern is predicted again
\* while that payment is not more than 7 days overdue.
C4_LapseRecovery ==
    (/\ response.kind = "month"
     /\ response.tenant_id = Owner
     /\ WellFormedMonth(response.target)
     /\ ResumedAfterGap
     /\ DaysBetween(today, Last(OldestFirst).date) >= 0
     /\ DaysBetween(today, ExpectedAfterMonths(Last(OldestFirst).date, 1)) <= 7
     /\ GetDismissedPredictions(dismissals, Owner, response.target) = {})
    => /\ \E p \in Range(DetectedNow) : p.last_date = Last(OldestFirst).date
       /\ response.predictions # <<>>

\* C5: a matcher returns the trailing run of the group; for the monthly
\* matcher: when the group ends with two payments a month apart and a monthly
\* pattern is returned, the pattern is built from the run that reaches the end
\* of the group, so its last occurrence is the newest transaction.
C5_TrailingRun ==
    LET s == OldestFirst
        n == Len(s)
    IN (/\ patterns = DetectedNow
        /\ patterns # <<>>
        /\ patterns[1].recurrence_type = "monthly"
        /\ n >= 2
        /\ MonthApart(s[n - 1].date, s[n].date)
        /\ ~TooVariable(AbsAmounts(SubSeq(s, n - 1, n))))
       => patterns[1].last_date = s[n].date

\* a real transaction t of the month covers the prediction q: same category,
\* same recipient, amount within 10% of the predicted amount.  With strict, a
\* difference of exactly 10% does not count, t has the type of q, and a
\* predicted amount of zero is covered whatever the amount of t
Covers(t, q, month, strict) ==
    LET pred == Abs(q.amount.num)
        diff == Abs(Abs(t.amount) * q.amount.den - pred)
    IN /\ MonthOf(t.date) = month
       /\ t.category = q.category
       /\ t.recipient = q.recipient
       /\ IF strict
          THEN /\ (t.type = "income") = (q.type = "income")
               /\ (10 * diff < pred \/ pred = 0)
          ELSE 10 * diff <= pred

C7_DismissedNotPredicted ==
    Answered =>
        \A q \in Range(response.predictions) :
            q.prediction_key \notin
                GetDismissedPredictions(dismissals, response.tenant_id, response.target)

\* a pattern that is due for the target month was left out because its key is
\* dismissed
C7_Witness ==
    /\ response.kind = "month"
    /\ \E p \in Range(PatternsOf(response.tenant_id)) :
          /\ ShouldPredict(p, response.target, today)
          /\ WellFormedMonth(response.target)
          /\ p.prediction_key \in
                 GetDismissedPredictions(dismissals, response.tenant_id, response.target)
    /\ response.predictions = <<>>

\* C8: a dismissal is returned for a target month exactly when it has no
\* expiry, or the target month lies before the month its expiry falls in.
C8_DismissalExpiryVisibility ==
    \A r \in dismissals : \A target \in TargetMonths :
        WellFormedMonth(target) =>
            ((r.prediction_key \in GetDismissedPredictions(dismissals, r.tenant_id, target))
             <=> (\/ r.expires_at = Null
                  \/ MonthsDiff(MkDate(target.year, target.month, 1), r.expires_at) > 0))

\* C9: after a dismiss request the key's row expires 60 days after today for
\* monthly, 120 for quarterly, 420 for yearly and 60 for any other or no
\* recurrence type, also when the key was dismissed before.
C9_ExpiryHorizon ==
    response.kind = "dismiss" =>
        LET rows == {r \in dismissals : r.prediction_key = response.data.prediction_key}
            days == IF "recurrence_type" \notin DOMAIN response.data THEN 60
                    ELSE IF response.data.recurrence_type = "monthly" THEN 60
                    ELSE IF response.data.recurrence_type = "quarterly" THEN 120
                    ELSE IF response.data.recurrence_type = "yearly" THEN 420
                    ELSE 60
        IN /\ Cardinality(rows) = 1
           /\ \A r \in rows : ToOrdinal(r.expires_at) - ToOrdinal(today) = days

\* a yearly dismissal of a key that another tenant had dismissed before
C9_Witness ==
    /\ response.kind = "dismiss"
    /\ "recurrence_type" \in DOMAIN response.data
    /\ response.data.recurrence_type = "yearly"
    /\ \E r \in dismissals :
          /\ r.prediction_key = response.data.prediction_key
          /\ r.tenant_id # response.tenant_id

\* C10: a pattern of an earlier detection run and a pattern of a run on the
\* present ledger with the same recipient, category and recurrence type have
\* the same prediction key.
C10_KeyStability ==
    \A i \in DOMAIN patterns : \A j \in DOMAIN DetectedNow :
        (/\ patterns[i].recipient = DetectedNow[j].recipient
         /\ patterns[i].category = DetectedNow[j].category
         /\ patterns[i].recurrence_type = DetectedNow[j].recurrence_type)
        => patterns[i].prediction_key = DetectedNow[j].prediction_key

\* the earlier run and the present one return the same payee with different
\* occurrence counts, amounts and last dates
C10_Witness ==
    \E i \in DOMAIN patterns : \E j \in DOMAIN DetectedNow :
        /\ patterns[i].recipient = DetectedNow[j].recipient
        /\ patterns[i].category = DetectedNow[j].category
        /\ patterns[i].recurrence_type = DetectedNow[j].recurrence_type
        /\ patterns[i].occurrences # DetectedNow[j].occurrences
        /\ patterns[i].average_amount # DetectedNow[j].average_amount
        /\ patterns[i].last_date # DetectedNow[j].last_date

\* the groups of the owner's transactions, when the grouping does not raise
GroupsNow ==
    IF DetectRaises(TransactionsOf(Owner)) THEN <<>>
    ELSE GroupTransactions(SelectSeq(TransactionsOf(Owner),
                                     LAMBDA t : t.category # InternalTransfer))

\* the patterns of DetectedNow that belong to a group
PatternsOfGroup(group) ==
    SelectSeq(DetectedNow, LAMBDA p : <<p.recipient, p.category, p.type>> = group.key)

\* C11: a detection run returns at most one pattern per (recipient, category,
\* type) group; a group the monthly matcher yields a pattern for is returned
\* as monthly, and otherwise a group the quarterly matcher yields a pattern
\* for is returned as quarterly.
C11_MatcherPriority ==
    \A i \in DOMAIN GroupsNow :
        LET group == GroupsNow[i]
            sorted_txns == SortByDate(group.txns)
            emitted == PatternsOfGroup(group)
        IN /\ Len(emitted) <= 1
           /\ Len(group.txns) >= 2 =>
                 /\ DetectMonthlyPattern(sorted_txns, group.key) # NoPattern
                        => /\ Len(emitted) = 1
                           /\ emitted[1].recurrence_type = "monthly"
                 /\ (/\ DetectMonthlyPattern(sorted_txns, group.key) = NoPattern
                     /\ DetectQuarterlyPattern(sorted_txns, group.key) # NoPattern)
                        => /\ Len(emitted) = 1
                           /\ emitted[1].recurrence_type = "quarterly"

\* a run returned a monthly pattern for a group that the quarterly or the
\* yearly matcher yields a pattern for as well
C11_Witness ==
    /\ patterns = DetectedNow
    /\ \E i \in DOMAIN GroupsNow :
          LET group == GroupsNow[i]
              sorted_txns == SortByDate(group.txns)
          IN /\ Len(group.txns) >= 2
             /\ DetectMonthlyPattern(sorted_txns, group.key) # NoPattern
             /\ \/ DetectQuarterlyPattern(sorted_txns, group.key) # NoPattern
                \/ DetectYearlyPattern(sorted_txns, group.key) # NoPattern
             /\ \E j \in DOMAIN patterns :
                    /\ <<patterns[j].recipient, patterns[j].category,
                          patterns[j].type>> = group.key
                    /\ patterns[j].recurrence_type = "monthly"

\* the owner's transactions all reach one group
OneGroup ==
    Len(GroupsNow) = 1 /\ Len(GroupsNow[1].txns) = Len(TransactionsOf(Owner))

\* the day of the month of d one calendar month later, clamped to the length
\* of that month
NextMonthClamped(d) ==
    LET y == IF d.month = 12 THEN d.year + 1 ELSE d.year
        m == IF d.month = 12 THEN 1 ELSE d.month + 1
    IN MkDate(y, m, Min(d.day, DaysInMonth(y, m)))

\* b lies within 3 days of the clamped day one month after a
Follows(a, b) == Abs(ToOrdinal(b) - ToOrdinal(NextMonthClamped(a))) <= 3

\* C12: payments of equal amounts on 2024-01-31, 2024-02-29 and 2024-03-31
\* are detected as one monthly pattern with 3 occurrences; a group of equal
\* amounts in which every payment lies within 3 days of the clamped day one
\* month after the payment before it is one monthly pattern of all its
\* payments; and in every monthly pattern each occurrence lies within 3 days
\* of the clamped day one month after the occurrence before it.
C12_MonthEndRollover ==
    LET s == OldestFirst
        n == Len(s)
    IN /\ (/\ OneGroup
           /\ n >= 2
           /\ \A i \in 1..(n - 1) :
                  Follows(s[i].date, s[i + 1].date) /\ s[i].amount = s[i + 1].amount)
          => /\ Len(DetectedNow) = 1
             /\ DetectedNow[1].recurrence_type = "monthly"
             /\ DetectedNow[1].occurrences = n
             /\ DetectedNow[1].last_date = s[n].date
       /\ \A p \in Range(DetectedNow) :
              p.recurrence_type = "monthly" =>
                  \A i \in 1..(Len(p.historical_payments) - 1) :
                      Follows(p.historical_payments[i].date,
                              p.historical_payments[i + 1].date)

\* a run returned the monthly pattern of the payments of 2024-01-31,
\* 2024-02-29 and 2024-03-31
C12_Witness ==
    /\ patterns = DetectedNow
    /\ [i \in DOMAIN OldestFirst |-> OldestFirst[i].date]
           = <<MkDate(2024, 1, 31), MkDate(2024, 2, 29), MkDate(2024, 3, 31)>>
    /\ Len(patterns) = 1
    /\ patterns[1].recurrence_type = "monthly"
    /\ patterns[1].occurrences = 3

\* the owner's transactions are the three of the worked example
ExampleLedger ==
    [i \in DOMAIN OldestFirst |->
        <<OldestFirst[i].date, OldestFirst[i].amount, OldestFirst[i].type,
          OldestFirst[i].recipient, OldestFirst[i].category>>]
    = << <<MkDate(2024, 1, 5), -50, "expense", Gym, Fitness>>,
         <<MkDate(2024, 2, 5), -50, "expense", Gym, Fitness>>,
         <<MkDate(2024, 3, 6), -52, "expense", Gym, Fitness>> >>

\* C13: the 'Gym'/'Fitness' expenses of 2024-01-05 (-50), 2024-02-05 (-50)
\* and 2024-03-06 (-52) yield exactly one pattern, monthly, with 3
\* occurrences, typical day 5 and average amount 152/3; the predictions for
\* 2024-04 generated on 2024-04-01 with no dismissals are exactly one, dated
\* 2024-04-05 with amount -152/3.
C13_WorkedExample ==
    ExampleLedger =>
        /\ Len(DetectedNow) = 1
        /\ DetectedNow[1].recurrence_type = "monthly"
        /\ DetectedNow[1].occurrences = 3
        /\ DetectedNow[1].typical_day = 5
        /\ DetectedNow[1].average_amount = [num |-> 152, den |-> 3]
        /\ (/\ response.kind = "month"
            /\ response.tenant_id = Owner
            /\ response.target = [year |-> 2024, month |-> 4]
            /\ today = MkDate(2024, 4, 1)
            /\ GetDismissedPredictions(dismissals, Owner, response.target) = {})
           => /\ Len(response.predictions) = 1
              /\ response.predictions[1].date = MkDate(2024, 4, 5)
              /\ response.predictions[1].amount = [num |-> -152, den |-> 3]
              /\ response.predictions[1].recipient = Gym
              /\ response.predictions[1].category = Fitness

\* the month endpoint answered for 2024-04 on 2024-04-01 over the three
\* transactions of the example, nothing dismissed
C13_Witness ==
    /\ ExampleLedger
    /\ response.kind = "month"
    /\ response.tenant_id = Owner
    /\ response.target = [year |-> 2024, month |-> 4]
    /\ today = MkDate(2024, 4, 1)
    /\ dismissals = {}
    /\ Len(response.predictions) = 1

\* C14: every prediction returned for a well-formed target month is dated
\* inside that month, on the typical day of its pattern when the month has
\* that day and on the last day of the month otherwise; a malformed target
\* month is answered with an empty list.
C14_PredictionDateInMonth ==
    response.kind = "month" =>
        IF WellFormedMonth(response.target)
        THEN \A q \in Range(response.predictions) :
                 /\ q.date.year = response.target.year
                 /\ q.date.month = response.target.month
                 /\ q.date.day \in 1..DaysInMonth(q.date.year, q.date.month)
                 /\ \E p \in Range(PatternsOf(response.tenant_id)) :
                        /\ PredictionOf(q, p)
                        /\ q.date.day =
                               IF p.typical_day <= DaysInMonth(q.date.year, q.date.month)
                               THEN p.typical_day
                               ELSE DaysInMonth(q.date.year, q.date.month)
        ELSE response.predictions = <<>>

\* a pattern with typical day 31 was predicted for April, on the 30th
C14_Witness ==
    /\ response.kind = "month"
    /\ response.target = [year |-> 2024, month |-> 4]
    /\ \E q \in Range(response.predictions) :
          /\ q.date = MkDate(2024, 4, 30)
          /\ \E p \in Range(PatternsOf(response.tenant_id)) :
                 PredictionOf(q, p) /\ p.typical_day = 31

\* the predictions the generator returns for the inputs of the held month
\* response when the clock reads current_date
PredictionsAt(current_date) ==
    GeneratePredictionsForMonth(
        PatternsOf(response.tenant_id), response.target,
        GetDismissedPredictions(dismissals, response.tenant_id, response.target),
        current_date)

Usable(transactions) ==
    SelectSeq(transactions, LAMBDA t :
        /\ ValidDate(t.date)
        /\ RecipientOf(t) # None
        /\ \E i \in DOMAIN RecipientOf(t) : RecipientOf(t)[i] # " ")

\* C16: a detection run never raises; transactions whose date does not parse
\* or whose recipient is empty, blank, absent or null are dropped, and the
\* run returns what it returns for the remaining transactions.
C16_SilentDegradation ==
    /\ response.kind # "raised"
    /\ ~DetectRaises(TransactionsOf(Owner))
          => DetectedNow = DetectRecurringPatterns(Usable(TransactionsOf(Owner)))

\* the dates of the transactions of the group a pattern belongs to, oldest
\* first
SortedDatesOfGroup(p) ==
    LET i == CHOOSE k \in DOMAIN GroupsNow :
                 GroupsNow[k].key = <<p.recipient, p.category, p.type>>
        sorted_txns == SortByDate(GroupsNow[i].txns)
    IN [k \in DOMAIN sorted_txns |-> sorted_txns[k].date]

\* a pair of dates that extends a yearly run
YearApart(a, b) ==
    /\ MonthsDiff(a, b) \in 11..13
    /\ Abs(b.day - a.day) <= 7

\* C17: the occurrences of every yearly pattern a run returns are consecutive
\* elements of the sorted group, and every adjacent pair of them is 11 to 13
\* months apart with days of the month at most 7 apart.
C17_YearlyRunConsecutive ==
    patterns = DetectedNow =>
        \A p \in Range(patterns) :
            p.recurrence_type = "yearly" =>
                LET s == SortedDatesOfGroup(p)
                    h == [i \in DOMAIN p.historical_payments |->
                             p.historical_payments[i].date]
                IN /\ \E k \in 0..(Len(s) - Len(h)) :
                          \A i \in DOMAIN h : h[i] = s[k + i]
                   /\ \A i \in 1..(Len(h) - 1) : YearApart(h[i], h[i + 1])

\* the owner's transactions are one group of two or more payments, each
\* within 3 days of the clamped day one month after the one before: the
\* monthly matcher matches them all
MonthlyChain ==
    /\ OneGroup
    /\ Len(OldestFirst) >= 2
    /\ \A i \in 1..(Len(OldestFirst) - 1) :
           Follows(OldestFirst[i].date, OldestFirst[i + 1].date)

\* the sum of the absolute amounts of the owner's transactions, and of their
\* squares
SumAbs == SumSeq([i \in DOMAIN OldestFirst |-> Abs(OldestFirst[i].amount)])

SumAbsSquares ==
    SumSeq([i \in DOMAIN OldestFirst |-> OldestFirst[i].amount * OldestFirst[i].amount])

\* population standard deviation / mean > 0.30, a mean of zero counting as
\* variability 0
PopulationCoVAbove30 ==
    LET n == Len(OldestFirst)
    IN SumAbs > 0 /\ 100 * (n * SumAbsSquares - SumAbs * SumAbs) > 9 * SumAbs * SumAbs

\* sample standard deviation (divisor n - 1) / mean > 0.30, a mean of zero
\* counting as variability 0
SampleCoVAbove30 ==
    LET n == Len(OldestFirst)
    IN /\ SumAbs > 0
       /\ 100 * n * (n * SumAbsSquares - SumAbs * SumAbs) > 9 * (n - 1) * SumAbs * SumAbs

\* C18 as stated: a matched run of two or more occurrences yields no pattern
\* exactly when the population standard deviation of its absolute amounts
\* divided by their mean is above 0.30.
C18_PopulationGate ==
    (patterns = DetectedNow /\ MonthlyChain) => (patterns = <<>> <=> PopulationCoVAbove30)

\* C18 amended: ... exactly when the sample standard deviation (divisor
\* n - 1) of its absolute amounts divided by their mean is above 0.30; a mean
\* of zero counts as variability 0.
C18_SampleGate ==
    (patterns = DetectedNow /\ MonthlyChain) => (patterns = <<>> <=> SampleCoVAbove30)

\* a run over payments of 90 and 150 returned no pattern: the sample
\* deviation is above 0.30 of the mean, the population deviation is not
C18_Witness ==
    /\ patterns = DetectedNow
    /\ MonthlyChain
    /\ patterns = <<>>
    /\ response = NoResponse
    /\ SampleCoVAbove30
    /\ ~PopulationCoVAbove30

\* twice the median of the days of the month of a pattern's occurrences: the
\* number of occurrences on or before a day and on or after it place the
\* two middle days
TwiceMedianDay(p) ==
    LET h == p.historical_payments
        n == Len(h)
        AtMost(d) == Cardinality({i \in DOMAIN h : h[i].date.day <= d})
        AtLeast(d) == Cardinality({i \in DOMAIN h : h[i].date.day >= d})
        lower == CHOOSE d \in 1..31 :
                     /\ \E i \in DOMAIN h : h[i].date.day = d
                     /\ AtMost(d) >= (n + 1) \div 2
                     /\ AtLeast(d) >= n - (n + 1) \div 2 + 1
        upper == CHOOSE d \in 1..31 :
                     /\ \E i \in DOMAIN h : h[i].date.day = d
                     /\ AtMost(d) >= n \div 2 + 1
                     /\ AtLeast(d) >= n - n \div 2
    IN lower + upper

\* C19 as stated: the typical day of every pattern is the median of the days
\* of the month of its occurrences rounded to the nearest integer, a median
\* of d + 0.5 giving d + 1, and lies in 1..31.
C19_TypicalDayRounded ==
    \A p \in Range(patterns) :
        /\ p.typical_day = (TwiceMedianDay(p) + 1) \div 2
        /\ p.typical_day \in 1..31

\* C19 amended: ... is the median truncated to an integer, a median of
\* d + 0.5 giving d, and lies in 1..31.
C19_TypicalDayTruncated ==
    \A p \in Range(patterns) :
        /\ p.typical_day = TwiceMedianDay(p) \div 2
        /\ p.typical_day \in 1..31

\* a pattern of an even number of occurrences whose median day is 5.5 was
\* returned with typical day 5
C19_Witness ==
    \E p \in Range(patterns) :
        /\ Len(p.historical_payments) % 2 = 0
        /\ TwiceMedianDay(p) = 11
        /\ p.typical_day = 5

\* in the owner's one group the payment at position k restarts the monthly
\* run: the payments before it follow one another month by month, and it lies
\* in the calendar month after the one before it but not within 3 days of
\* the expected day
RestartsAt(k) ==
    LET s == OldestFirst
    IN /\ OneGroup
       /\ k \in 2..Len(s)
       /\ \A i \in 1..(k - 2) : Follows(s[i].date, s[i + 1].date)
       /\ ~Follows(s[k - 1].date, s[k].date)
       /\ MonthsDiff(s[k - 1].date, s[k].date) = 1

\* C20: when the final payment of a group restarts the run, no monthly
\* pattern is returned, however long the run before it was; when the payments
\* after a restart follow it month by month to the end of the group, the
\* monthly pattern returned starts at the restarting payment.
C20_MonthlyRestart ==
    LET s == OldestFirst
        n == Len(s)
    IN /\ RestartsAt(n) => \A p \in Range(DetectedNow) : p.recurrence_type # "monthly"
       /\ \A k \in 2..(n - 1) :
              (/\ RestartsAt(k)
               /\ \A i \in k..(n - 1) :
                      Follows(s[i].date, s[i + 1].date) /\ s[i].amount = s[i + 1].amount)
              => /\ Len(DetectedNow) = 1
                 /\ DetectedNow[1].recurrence_type = "monthly"
                 /\ DetectedNow[1].occurrences = n - k + 1
                 /\ DetectedNow[1].historical_payments[1].date = s[k].date

\* a run over payments on 2024-01-05, 2024-02-05 and 2024-03-31 returned no
\* pattern: the third payment restarted a run of two
C20_Witness ==
    /\ patterns = DetectedNow
    /\ patterns = <<>>
    /\ Len(OldestFirst) = 3
    /\ RestartsAt(3)
    /\ OldestFirst[3].date = MkDate(2024, 3, 31)
    /\ OldestFirst[1].amount = OldestFirst[2].amount

\* the pair at positions i, i + 1 of a sequence of dates is exactly three
\* calendar months apart
QuarterApart(s, i) ==
    i \in 1..(Len(s) - 1) /\ MonthsDiff(s[i], s[i + 1]) = 3

\* h is the first run of three or more dates of s, each three calendar
\* months after the one before, that no qualifying pair extends on either side
FirstQuarterlyRun(h, s) ==
    /\ Len(h) >= 3
    /\ \E k \in 0..(Len(s) - Len(h)) :
          /\ \A i \in DOMAIN h : h[i] = s[k + i]
          /\ \A i \in 1..(Len(h) - 1) : QuarterApart(s, k + i)
          /\ ~QuarterApart(s, k)
          /\ ~QuarterApart(s, k + Len(h))
          /\ ~\E j \in 1..(k - 2) : QuarterApart(s, j) /\ QuarterApart(s, j + 1)

MeanAbsFrom(h, from) ==
    Frac(SumSeq([i \in 1..(Len(h) - from + 1) |-> Abs(h[from + i - 1].amount)]),
         Len(h) - from + 1)

\* sample standard deviation / mean of the absolute amounts of a history is
\* above 0.30
HistoryTooVariable(h) ==
    LET n == Len(h)
        sx == SumSeq([i \in DOMAIN h |-> Abs(h[i].amount)])
        sxx == SumSeq([i \in DOMAIN h |-> h[i].amount * h[i].amount])
    IN sx > 0 /\ 100 * n * (n * sxx - sx * sx) > 9 * (n - 1) * sx * sx

\* C22: the average amount of a monthly pattern with 3 or more occurrences
\* is the mean of the absolute amounts of its last 3 occurrences; of every
\* other pattern it is the mean over all occurrences; and the amounts of all
\* occurrences of every pattern pass the variability gate.
C22_RepresentativeAmount ==
    \A p \in Range(patterns) :
        LET h == p.historical_payments
        IN /\ p.average_amount =
                  IF p.recurrence_type = "monthly" /\ Len(h) >= 3
                  THEN MeanAbsFrom(h, Len(h) - 2)
                  ELSE MeanAbsFrom(h, 1)
           /\ ~HistoryTooVariable(h)

\* a run returned a pattern of four occurrences whose mean over the last
\* three differs from the mean over all four
DriftingMeanOfFour(recurrence_type) ==
    \E p \in Range(patterns) :
        /\ p.recurrence_type = recurrence_type
        /\ Len(p.historical_payments) = 4
        /\ MeanAbsFrom(p.historical_payments, 2) # MeanAbsFrom(p.historical_payments, 1)

\* such a pattern, monthly: its average is the mean of the last three
C22_Witness ==
    /\ DriftingMeanOfFour("monthly")
    /\ \A p \in Range(patterns) :
           p.average_amount = MeanAbsFrom(p.historical_payments, 2)

\* the month endpoint answered a request for a month 1..12 of tenant_id
MonthAnswered ==
    /\ response.kind = "month"
    /\ response.target.month \in 1..12

\* the pattern p of the answered tenant is not dismissed for the answered month
NotDismissed(p) ==
    \A r \in dismissals :
        (r.tenant_id = response.tenant_id /\ r.prediction_key = p.prediction_key)
        => /\ r.expires_at # Null
           /\ ToOrdinal(r.expires_at)
                  < ToOrdinal(MkDate(response.target.year, response.target.month, 1))

\* the answer holds a prediction of the pattern p
Predicted(p) == \E q \in Range(response.predictions) : PredictionOf(q, p)

\* the same day k months after d, or the last day of that month when the day
\* does not exist in it
MonthsLaterClamped(d, k) ==
    LET m0 == d.month - 1 + k
        y == d.year + (m0 \div 12)
        m == (m0 % 12) + 1
    IN IF d.day <= DaysInMonth(y, m) THEN MkDate(y, m, d.day)
       ELSE MkDate(y, m, DaysInMonth(y, m))

\* the number of calendar months from the month of d to the month target
MonthDistance(d, target) ==
    (target.year * 12 + target.month) - (d.year * 12 + d.month)

\* C23: in an answer of the month endpoint, a quarterly pattern that is not
\* dismissed has a prediction exactly when today is at most 7 days after its
\* last date plus 3 calendar months (day clamped to the month's last day) and
\* the target month lies 2 to 4 calendar months after the month of its last
\* date.
C23_QuarterlyDueRule ==
    MonthAnswered =>
        \A p \in Range(PatternsOf(response.tenant_id)) :
            (p.recurrence_type = "quarterly" /\ NotDismissed(p)) =>
                (Predicted(p) <=>
                    /\ DaysBetween(today, MonthsLaterClamped(p.last_date, 3)) <= 7
                    /\ MonthDistance(p.last_date, response.target) \in 2..4)

\* on 2024-03-07 the month endpoint answered for 2024-02 with the prediction of
\* a quarterly pattern last paid on 2023-11-30, expected on 2024-02-29
C23_Witness ==
    /\ MonthAnswered
    /\ today = MkDate(2024, 3, 7)
    /\ response.target = [year |-> 2024, month |-> 2]
    /\ \E p \in Range(PatternsOf(response.tenant_id)) :
          /\ p.recurrence_type = "quarterly"
          /\ p.last_date = MkDate(2023, 11, 30)
          /\ NotDismissed(p)
          /\ Predicted(p)

\* the day one year after d, 28 February for a 29 February
YearLater(d) ==
    IF d.month = 2 /\ d.day = 29 THEN MkDate(d.year + 1, 2, 28)
    ELSE MkDate(d.year + 1, d.month, d.day)

\* C24: in an answer of the month endpoint, a yearly pattern that is not
\* dismissed has a prediction exactly when today is at most 7 days after the
\* day one year after its last date (28 February for a 29 February), the
\* target month has the month number of its last date and the target year is
\* at least one greater than the year of its last date.
C24_YearlyDueRule ==
    MonthAnswered =>
        \A p \in Range(PatternsOf(response.tenant_id)) :
            (p.recurrence_type = "yearly" /\ NotDismissed(p)) =>
                (Predicted(p) <=>
                    /\ DaysBetween(today, YearLater(p.last_date)) <= 7
                    /\ response.target.month = p.last_date.month
                    /\ response.target.year >= p.last_date.year + 1)

\* on 2025-03-07 the month endpoint answered for 2025-02 with the prediction of
\* a yearly pattern last paid on 2024-02-29, expected on 2025-02-28
C24_Witness ==
    /\ MonthAnswered
    /\ today = MkDate(2025, 3, 7)
    /\ response.target = [year |-> 2025, month |-> 2]
    /\ \E p \in Range(PatternsOf(response.tenant_id)) :
          /\ p.recurrence_type = "yearly"
          /\ p.last_date = MkDate(2024, 2, 29)
          /\ NotDismissed(p)
          /\ Predicted(p)

\* C25: an answer of the month endpoint holds no prediction for which the
\* ledger has, in the target month, a real transaction of the same category,
\* recipient and type whose amount is within 10% of the predicted amount.
C25_MonthEndpointDropsDuplicates ==
    response.kind = "month" =>
        \A q \in Range(response.predictions) :
            ~\E t \in Range(TransactionsOf(response.tenant_id)) :
                Covers(t, q, response.target, TRUE)

\* C26: two patterns of one detection result that come from different groups
\* (recipient, category or type differ) have different prediction keys.
C26_KeysDistinctAcrossGroups ==
    \A i, j \in DOMAIN patterns :
        (<<patterns[i].recipient, patterns[i].category, patterns[i].type>>
             # <<patterns[j].recipient, patterns[j].category, patterns[j].type>>)
        => patterns[i].prediction_key # patterns[j].prediction_key

\* C27: once a tenant's dismiss request for a key is answered, the table
\* holds a row of that tenant for the key (its dismissal is not lost, and it
\* is not stored as a change of another tenant's row).
C27_DismissalsPerTenant ==
    response.kind = "dismiss" =>
        \E r \in dismissals :
            /\ r.tenant_id = response.tenant_id
            /\ r.prediction_key = response.data.prediction_key

\* C28: in an answer of the month endpoint for any month 1..12, a monthly
\* pattern that is not dismissed and whose expected next date lies at most 7
\* days before today has exactly one prediction, whether the target month is
\* before, equal to or after the month of the pattern's last date.
C28_MonthlyDueForEveryTarget ==
    MonthAnswered =>
        \A p \in Range(PatternsOf(response.tenant_id)) :
            (/\ p.recurrence_type = "monthly"
             /\ NotDismissed(p)
             /\ DaysBetween(today, MonthsLaterClamped(p.last_date, 1)) <= 7)
            => Cardinality({i \in DOMAIN response.predictions :
                               PredictionOf(response.predictions[i], p)}) = 1

\* the month endpoint answered for 2024-01 with the prediction of a monthly
\* pattern last paid in February 2024
C28_Witness ==
    /\ MonthAnswered
    /\ response.target = [year |-> 2024, month |-> 1]
    /\ \E p \in Range(PatternsOf(response.tenant_id)) :
          /\ p.recurrence_type = "monthly"
          /\ p.last_date = MkDate(2024, 2, 5)
          /\ NotDismissed(p)
          /\ Predicted(p)

\* C29: for every returned pattern, occurrences is the length of
\* historical_payments and of historical_dates, the payments are listed from
\* the oldest to the newest with the dates of historical_dates, each of them
\* is a transaction of the pattern's group (recipient, category, type),
\* last_date is the date of the last entry and currency is the currency of
\* the first entry.
C29_PatternRecordConsistent ==
    \A p \in Range(patterns) :
        LET h == p.historical_payments
        IN /\ p.occurrences = Len(h)
           /\ p.occurrences = Len(p.historical_dates)
           /\ \A i \in DOMAIN h : p.historical_dates[i] = h[i].date
           /\ \A i \in 1..(Len(h) - 1) :
                  ToOrdinal(h[i].date) <= ToOrdinal(h[i + 1].date)
           /\ \A i \in DOMAIN h :
                  \E t \in Range(TransactionsOf(Owner)) :
                      /\ Parseable(t)
                      /\ t.date = h[i].date
                      /\ t.amount = h[i].amount
                      /\ t.currency = h[i].currency
                      /\ Strip(RecipientOf(t)) = p.recipient
                      /\ t.category = p.category
                      /\ t.type = p.type
           /\ p.last_date = h[Len(h)].date
           /\ p.currency = h[1].currency

\* a pattern of four payments was returned, the first in CHF and the last in
\* EUR
C29_Witness ==
    \E p \in Range(patterns) :
        /\ p.occurrences = 4
        /\ p.currency = "CHF"
        /\ p.historical_payments[4].currency = "EUR"
        /\ p.last_date = MkDate(2024, 4, 5)

\* the owner's transactions without the one at position k, oldest first
Without(k) ==
    [i \in 1..(Len(OldestFirst) - 1) |->
        IF i < k THEN OldestFirst[i] ELSE OldestFirst[i + 1]]

\* the payment at position k of the owner's one group lies in the calendar
\* month of the payment before it, and the other payments are two or more of
\* one amount that follow one another month by month
SkippedAt(k) ==
    LET s == OldestFirst
        kept == Without(k)
    IN /\ OneGroup
       /\ k \in 2..Len(s)
       /\ MonthOf(s[k].date) = MonthOf(s[k - 1].date)
       /\ ~Follows(s[k - 1].date, s[k].date)
       /\ Len(kept) >= 2
       /\ \A i \in 1..(Len(kept) - 1) :
              /\ Follows(kept[i].date, kept[i + 1].date)
              /\ kept[i].amount = kept[i + 1].amount

\* C30: a payment outside the 3-day window that falls in the calendar month
\* of the last accepted payment is skipped: the run, its length and the last
\* accepted date stay as they are, so that the monthly pattern returned is
\* made of the other payments, the later ones matched against the payment
\* before the skipped one.
C30_SameMonthSkipped ==
    \A k \in 2..Len(OldestFirst) :
        SkippedAt(k) =>
            /\ Len(DetectedNow) = 1
            /\ DetectedNow[1].recurrence_type = "monthly"
            /\ DetectedNow[1].occurrences = Len(OldestFirst) - 1
            /\ DetectedNow[1].historical_dates
                   = [i \in DOMAIN Without(k) |-> Without(k)[i].date]

\* a run over payments on 2024-01-05, 2024-01-31 and 2024-02-05 returned the
\* monthly pattern of the first and the third
C30_Witness ==
    /\ patterns = DetectedNow
    /\ Len(OldestFirst) = 3
    /\ SkippedAt(2)
    /\ OldestFirst[2].date = MkDate(2024, 1, 31)
    /\ Len(patterns) = 1
    /\ patterns[1].historical_dates = <<MkDate(2024, 1, 5), MkDate(2024, 2, 5)>>

====
